---- MODULE Spec2Model ----
(***************************************************************************)
(* Model of Notebooks/SageMaker_Customer_Churn_XGB_Pipeline.ipynb.         *)
(*                                                                         *)
(* Spec      : one top-to-bottom run of the notebook (each code cell that  *)
(*             calls the platform is an action) interleaved with the       *)
(*             platform: the execution of the pipeline the notebook        *)
(*             defines, the model package group and the endpoint.          *)
(* SpecSplit : preprocess.py's shuffle and three-way split.                *)
(*                                                                         *)
(* Read-only calls (describe, list) always answer; every state-changing    *)
(* call either succeeds or raises a ClientError.  An uncaught exception    *)
(* ends the run (pc = "aborted").                                          *)
(***************************************************************************)
EXTENDS Integers, Sequences, FiniteSets, TLC

\* ------------------------------------------------------------------ bounds
MaxPolls == 1          \* 'Executing' / 'Creating' answers seen per polling loop
MaxPrior == 1          \* model packages in the group before the run
MaxTestRows == 5       \* rows of test.csv scored by evaluate.py
MaxEndpointChanges == 1  \* status changes of the endpoint after 'InService'
MaxRows == 90          \* rows of the raw dataset read by preprocess.py
MaxPermRows == 4       \* up to this many rows every shuffle is tried
MaxBucketLen == 2      \* characters of the bucket name in --input-data
MaxKeyLen == 3         \* characters of the object key in --input-data
MaxFrameRows == 5      \* rows of raw-data.csv when its columns are followed

\* --------------------------------------------------------- names, constants
pipeline_name == "CustomerChurn-Pipe-MMSS"
model_package_group_name == "CustomerChurnPackageGroup"
model_name == "CustomerChurn-model-MMSS"
endpoint_config_name == "Test-EndpointConfig-TS"
endpoint_name == "Test-endpoint-TS"
ProjectTags == {"sagemaker:project-name", "sagemaker:project-id"}

step_process == "CustomerChurnProcess"
step_train == "CustomerChurnTrain"
step_eval == "CustomerChurnEval"
step_cond == "CustomerChurnAccuracyCond"
step_register == "CustomerChurnRegisterModel"

\* steps=[step_process, step_train, step_eval, step_cond] plus the if-branch
PipelineSteps == {step_process, step_train, step_eval, step_cond, step_register}

\* right=0.8 as the rational ThresholdNum / ThresholdDen
ThresholdNum == 8
ThresholdDen == 10

\* mutant: the training inputs are fixed S3 URIs, not properties of step_process
DependsOnFixedInputs(s) ==
    CASE s = step_process  -> {}
      [] s = step_train    -> {}
      [] s = step_eval     -> {step_train, step_process}
      [] s = step_cond     -> {step_eval}
      [] s = step_register -> {step_train}

\* The step a step reads a runtime property of (step_X.properties..., or the
\* JsonGet of the condition) must have completed before it starts.
DependsOn(s) ==
    CASE s = step_process  -> {}
      [] s = step_train    -> {step_process}
      [] s = step_eval     -> {step_train, step_process}
      [] s = step_cond     -> {step_eval}
      [] s = step_register -> {step_train}

\* if_steps=[step_register], else_steps=[]
if_steps == {step_register}
else_steps == {}

\* mutant: the parameter's default is the status that waits for a person
model_approval_status_pending == "PendingManualApproval"

\* model_approval_status default
model_approval_status == "Approved"

VARIABLES
    pc,                       \* the notebook cell about to run
    raised,                   \* the exception that ended the run
    calls,                    \* state-changing calls issued, in order
    printed,                  \* what the run printed or logged
    error,                    \* create cell: error = e.response["Error"]
    response,                 \* create cell: response
    pipeline_arn,             \* create cell: pipeline_arn
    pipeline_execution_arn,   \* run cell
    resp,                     \* run cell: last PipelineExecutionStatus polled
    polls,                    \* 'Executing' / 'Creating' answers seen so far
    latest_model_package_arn,
    model_data,               \* ModelDataUrl read back from the package
    status,                   \* wait_for_response: status
    prediction,               \* invoke cell
    pipelines,                \* platform: pipelines of the account
    execStatus,               \* platform: status of the execution started
    stepStatus,               \* platform: status of each step of it
    report,                   \* evaluation.json written by evaluate.py
    condOutcome,              \* platform: outcome of the condition step
    consumed,                 \* platform: what each step was given to read
    packages,                 \* platform: CustomerChurnPackageGroup
    models,                   \* platform: models
    endpoint_configs,         \* platform: endpoint configs
    endpoint,                 \* platform: the endpoint
    endpointChanges,          \* platform: status changes after 'InService'
    script_pc,                \* preprocess.py: position
    n_rows,                   \* preprocess.py: len(model_data)
    shuffled,                 \* preprocess.py: model_data.sample(frac=1, ...)
    train_csv,                \* preprocess.py: rows of train.csv
    validation_csv,           \* preprocess.py: rows of validation.csv
    test_csv,                 \* preprocess.py: rows of test.csv
    input_data,               \* preprocess.py: args.input_data
    bucket,                   \* preprocess.py: bucket
    key,                      \* preprocess.py: key
    raw_csv,                  \* preprocess.py: raw-data.csv as downloaded
    df,                       \* preprocess.py: df
    model_frame,              \* preprocess.py: model_data
    y_test,                   \* evaluate.py: y_test
    X_test                    \* evaluate.py: df.values given to xgboost.DMatrix

nbVars == <<pc, raised, calls, printed, error, response, pipeline_arn,
            pipeline_execution_arn, resp, polls, latest_model_package_arn,
            model_data, status, prediction>>
execVars == <<execStatus, stepStatus, report, condOutcome, consumed>>
hostVars == <<models, endpoint_configs, endpoint, endpointChanges>>
urlVars == <<input_data, bucket, key>>
frameVars == <<raw_csv, df, model_frame, y_test, X_test>>
scriptVars == <<script_pc, n_rows, shuffled, train_csv, validation_csv, test_csv,
                urlVars, frameVars>>
runVars == <<nbVars, pipelines, execVars, packages, hostVars>>
vars == <<runVars, scriptVars>>

\* ------------------------------------------------------------- exceptions
NoException == [type |-> "none", at |-> "none", args |-> <<>>]

UniqueMessage == <<"Pipeline names must be unique within", "an AWS account and region">>

\* e.response["Error"] of the ClientErrors the platform answers with
DuplicateNameError == [Code |-> "ValidationError", Message |-> UniqueMessage]
OtherErrors ==
    { [Code |-> "ValidationError", Message |-> <<"1 validation error detected">>],
      [Code |-> "AccessDeniedException", Message |-> UniqueMessage] }

NoError == [Code |-> "", Message |-> <<>>]
ResourceNotFound == [Code |-> "ResourceNotFound", Message |-> <<"does not exist">>]

ClientError(at, e) == [type |-> "ClientError", at |-> at, args |-> <<e>>]

\* "..." in error["Message"]
Contains(message, phrase) == \E i \in 1..Len(message) : message[i] = phrase

\* mutant: the handler tests for another error code
IsNameConflictOtherCode(e) ==
    /\ e.Code = "ValidationException"
    /\ Contains(e.Message, "Pipeline names must be unique within")

\* mutant: the handler does not look at the message
IsAnyValidationError(e) == e.Code = "ValidationError"

\* the condition of the except branch of the create cell
IsNameConflict(e) ==
    /\ e.Code = "ValidationError"
    /\ Contains(e.Message, "Pipeline names must be unique within")

\* messages printed and logged by wait_for_response when the endpoint failed
FailureNotice(message) == <<"Endpoint failed with the following error", message>>

\* mutant: the exception is built from the failure reason
EndpointFailedWithReason(message) ==
    [type |-> "Exception", at |-> "wait_for_response",
     args |-> <<"Creating Endpoint failed", message>>]

\* raise Exception('Creating Endpoint failed')
EndpointFailedException(message) ==
    [type |-> "Exception", at |-> "wait_for_response",
     args |-> <<"Creating Endpoint failed">>]

\* raise Exception('Creating job stopped')
JobStoppedException ==
    [type |-> "Exception", at |-> "wait_for_response",
     args |-> <<"Creating job stopped">>]

\* packages[0] of an empty list
IndexError == [type |-> "IndexError", at |-> "list_model_packages", args |-> <<>>]

\* --------------------------------------------------------- platform values
FailureReasons == {"CapacityError", "ImageNotFound"}

NoEndpoint == [EndpointStatus |-> "None", EndpointConfigName |-> "", FailureReason |-> ""]

NoReport == [written |-> FALSE]

TrainArtifact == "CustomerChurnTrain/output/model.tar.gz"
PriorArtifact == "earlier/output/model.tar.gz"

PriorPackage(i, approval) ==
    [ModelPackageArn |-> i, CreatedBy |-> "earlier", CreationTime |-> i,
     ModelApprovalStatus |-> approval, ModelDataUrl |-> PriorArtifact]

PriorGroups ==
    UNION { { [i \in 1..n |-> PriorPackage(i, f[i])] :
                f \in [1..n -> {"Approved", "PendingManualApproval"}] } :
            n \in 0..MaxPrior }

Pipe(name) == [PipelineName |-> name, Tags |-> {}]

PriorPipelines ==
    { <<>>, <<Pipe(pipeline_name)>>, <<Pipe("other"), Pipe(pipeline_name)>> }

\* ARNs of the pipelines called name
ArnsOf(ps, name) == { i \in 1..Len(ps) : ps[i].PipelineName = name }

\* the run of the notebook before its first cell, on an account that holds
\* ps and a package group that holds group
RunInit(ps, group) ==
    /\ pc = "create"
    /\ raised = NoException
    /\ calls = <<>>
    /\ printed = {}
    /\ error = NoError
    /\ response = 0
    /\ pipeline_arn = 0
    /\ pipeline_execution_arn = 0
    /\ resp = "none"
    /\ polls = 0
    /\ latest_model_package_arn = 0
    /\ model_data = "none"
    /\ status = "none"
    /\ prediction = "none"
    /\ pipelines = ps
    /\ execStatus = "None"
    /\ stepStatus = [s \in PipelineSteps |-> "NotStarted"]
    /\ report = NoReport
    /\ condOutcome = "None"
    /\ consumed = [s \in PipelineSteps |-> <<>>]
    /\ packages = group
    /\ models = <<>>
    /\ endpoint_configs = <<>>
    /\ endpoint = NoEndpoint
    /\ endpointChanges = 0

\* preprocess.py before it has looked at its arguments
NoUrl ==
    /\ input_data = <<>>
    /\ bucket = <<>>
    /\ key = <<>>

\* a DataFrame: the names of its columns, their dtypes and its rows
Frame(columns, dtypes, data) == [columns |-> columns, dtypes |-> dtypes, data |-> data]

EmptyFrame == Frame(<<>>, <<>>, <<>>)

\* preprocess.py and evaluate.py before they have read anything
NoFrames ==
    /\ raw_csv = EmptyFrame
    /\ df = EmptyFrame
    /\ model_frame = EmptyFrame
    /\ y_test = <<>>
    /\ X_test = <<>>

ScriptIdle ==
    /\ script_pc = "idle"
    /\ NoUrl
    /\ NoFrames
    /\ n_rows = 0
    /\ shuffled = <<>>
    /\ train_csv = <<>>
    /\ validation_csv = <<>>
    /\ test_csv = <<>>

Init ==
    /\ \E ps \in PriorPipelines, group \in PriorGroups : RunInit(ps, group)
    /\ ScriptIdle

\* mutant: the failing cell is run again
AbortAndRetry(exc) ==
    /\ pc' = pc
    /\ raised' = exc

\* an uncaught exception ends the run
Abort(exc) ==
    /\ pc' = "aborted"
    /\ raised' = exc

\* ------------------------------------------------------- the notebook cells

\* pipeline.create(role_arn=role) on the platform: a new pipeline, or the
\* name conflict when one of that name exists, or another error
CreateSucceeds ==
    /\ ArnsOf(pipelines, pipeline_name) = {}
    /\ pipelines' = Append(pipelines, Pipe(pipeline_name))
    /\ response' = Len(pipelines) + 1
    /\ pc' = "add_tags"
    /\ UNCHANGED <<raised, error>>

\* the except branch: pipeline.describe() on a name conflict (which raises
\* when no pipeline has the name), raise otherwise
CreateFails(e) ==
    /\ UNCHANGED pipelines
    /\ error' = e
    /\ IF IsNameConflict(e)
         THEN IF ArnsOf(pipelines, pipeline_name) = {}
                THEN /\ Abort(ClientError("pipeline.describe", ResourceNotFound))
                     /\ UNCHANGED response
                ELSE /\ response' = CHOOSE i \in ArnsOf(pipelines, pipeline_name) : TRUE
                     /\ pc' = "add_tags"
                     /\ UNCHANGED raised
         ELSE /\ Abort(ClientError("pipeline.create", e))
              /\ UNCHANGED response

PipelineCreate ==
    /\ pc = "create"
    /\ calls' = Append(calls, "pipeline.create")
    /\ \/ CreateSucceeds
       \/ /\ ArnsOf(pipelines, pipeline_name) # {}
          /\ CreateFails(DuplicateNameError)
       \/ \E e \in OtherErrors : CreateFails(e)
    /\ UNCHANGED <<scriptVars, printed, pipeline_arn, pipeline_execution_arn, resp,
                   polls, latest_model_package_arn, model_data, status, prediction,
                   execVars, packages, hostVars>>

\* pipeline_arn = response["PipelineArn"]; sm_client.add_tags(...)
AddTags ==
    /\ pc = "add_tags"
    /\ pipeline_arn' = response
    /\ calls' = Append(calls, "add_tags")
    /\ \/ /\ pipelines' = [pipelines EXCEPT ![response].Tags = @ \cup ProjectTags]
          /\ pc' = "start"
          /\ UNCHANGED raised
       \/ /\ \E e \in OtherErrors : Abort(ClientError("add_tags", e))
          /\ UNCHANGED pipelines
    /\ UNCHANGED <<scriptVars, error, printed, response, pipeline_execution_arn, resp, polls,
                   latest_model_package_arn, model_data, status, prediction,
                   execVars, packages, hostVars>>

\* start_response = pipeline.start().  A pipeline that already had the name
\* is one an earlier run of this notebook created: it holds this definition.
PipelineStart ==
    /\ pc = "start"
    /\ calls' = Append(calls, "pipeline.start")
    /\ \/ /\ execStatus' = "Executing"
          /\ pipeline_execution_arn' = 1
          /\ pc' = "poll"
          /\ UNCHANGED raised
       \/ /\ \E e \in OtherErrors : Abort(ClientError("pipeline.start", e))
          /\ UNCHANGED <<execStatus, pipeline_execution_arn>>
    /\ UNCHANGED <<scriptVars, error, printed, response, pipeline_arn, resp, polls,
                   latest_model_package_arn, model_data, status, prediction,
                   pipelines, stepStatus, report, condOutcome, consumed, packages,
                   hostVars>>

\* 'Executing' / 'Creating' answers seen after one more: the loops count
\* nothing themselves, the model counts up to MaxPolls and then stays there
OneMorePoll(n) == IF n < MaxPolls THEN n + 1 ELSE n

\* mutant: the loop gives up after MaxPolls answers of 'Executing'
PollExecutionGivesUp ==
    /\ pc = "poll"
    /\ resp' = execStatus
    /\ IF execStatus = "Executing" /\ polls < MaxPolls
         THEN /\ polls' = polls + 1
              /\ pc' = "poll"
         ELSE /\ polls' = 0
              /\ pc' = "list_model_packages"
    /\ UNCHANGED <<scriptVars, error, raised, calls, printed, response, pipeline_arn,
                   pipeline_execution_arn, latest_model_package_arn, model_data,
                   status, prediction, pipelines, execVars, packages, hostVars>>

\* one iteration of the while True loop of the run cell
PollExecution ==
    /\ pc = "poll"
    /\ resp' = execStatus
    /\ IF execStatus = "Executing"
         THEN /\ polls' = OneMorePoll(polls)
              /\ pc' = "poll"
         ELSE /\ polls' = 0
              /\ pc' = "list_model_packages"
    /\ UNCHANGED <<scriptVars, error, raised, calls, printed, response, pipeline_arn,
                   pipeline_execution_arn, latest_model_package_arn, model_data,
                   status, prediction, pipelines, execVars, packages, hostVars>>

\* sorted(packages, key=CreationTime, reverse=True)[0]['ModelPackageArn']
Latest(ps) ==
    ps[CHOOSE i \in 1..Len(ps) :
         \A j \in 1..Len(ps) : ps[j].CreationTime <= ps[i].CreationTime].ModelPackageArn

ListModelPackages ==
    /\ pc = "list_model_packages"
    /\ IF packages = <<>>
         THEN /\ Abort(IndexError)
              /\ UNCHANGED latest_model_package_arn
         ELSE /\ latest_model_package_arn' = Latest(packages)
              /\ pc' = "update_model_package"
              /\ UNCHANGED raised
    /\ UNCHANGED <<scriptVars, error, calls, printed, response, pipeline_arn, pipeline_execution_arn,
                   resp, polls, model_data, status, prediction, pipelines,
                   execVars, packages, hostVars>>

\* sm_client.update_model_package(ModelPackageArn=..., ModelApprovalStatus="Approved")
\* the group after update_model_package(ModelPackageArn=arn, ModelApprovalStatus=approval)
update_model_package(ps, arn, approval) ==
    [ps EXCEPT ![arn].ModelApprovalStatus = approval]

UpdateModelPackage ==
    /\ pc = "update_model_package"
    /\ calls' = Append(calls, "update_model_package")
    /\ \/ /\ packages' = update_model_package(packages, latest_model_package_arn, "Approved")
          /\ pc' = "describe_model_package"
          /\ UNCHANGED raised
       \/ /\ \E e \in OtherErrors :
                Abort(ClientError("update_model_package", e))
          /\ UNCHANGED packages
    /\ UNCHANGED <<scriptVars, error, printed, response, pipeline_arn, pipeline_execution_arn, resp,
                   polls, latest_model_package_arn, model_data, status, prediction,
                   pipelines, execVars, hostVars>>

\* model_details = describe_model_package(...); model_data = ...['ModelDataUrl']
DescribeModelPackage ==
    /\ pc = "describe_model_package"
    /\ model_data' = packages[latest_model_package_arn].ModelDataUrl
    /\ pc' = "create_model"
    /\ UNCHANGED <<scriptVars, error, raised, calls, printed, response, pipeline_arn,
                   pipeline_execution_arn, resp, polls, latest_model_package_arn,
                   status, prediction, pipelines, execVars, packages, hostVars>>

\* model_version_arn=latest_model_package_arn; sm_client.create_model(...)
CreateModel ==
    /\ pc = "create_model"
    /\ calls' = Append(calls, "create_model")
    /\ \/ /\ models' = Append(models, [ModelName |-> model_name,
                                       ModelPackageName |-> latest_model_package_arn])
          /\ pc' = "create_endpoint_config"
          /\ UNCHANGED raised
       \/ /\ \E e \in OtherErrors : Abort(ClientError("create_model", e))
          /\ UNCHANGED models
    /\ UNCHANGED <<scriptVars, error, printed, response, pipeline_arn, pipeline_execution_arn, resp,
                   polls, latest_model_package_arn, model_data, status, prediction,
                   pipelines, execVars, packages, endpoint_configs, endpoint,
                   endpointChanges>>

\* sm_client.create_endpoint_config(..., ProductionVariants=[{'ModelName': model_name}])
CreateEndpointConfig ==
    /\ pc = "create_endpoint_config"
    /\ calls' = Append(calls, "create_endpoint_config")
    /\ \/ /\ endpoint_configs' =
                Append(endpoint_configs, [EndpointConfigName |-> endpoint_config_name,
                                          ModelName |-> model_name])
          /\ pc' = "create_endpoint"
          /\ UNCHANGED raised
       \/ /\ \E e \in OtherErrors :
                Abort(ClientError("create_endpoint_config", e))
          /\ UNCHANGED endpoint_configs
    /\ UNCHANGED <<scriptVars, error, printed, response, pipeline_arn, pipeline_execution_arn, resp,
                   polls, latest_model_package_arn, model_data, status, prediction,
                   pipelines, execVars, packages, models, endpoint, endpointChanges>>

\* sm_client.create_endpoint(EndpointName=..., EndpointConfigName=...)
CreateEndpoint ==
    /\ pc = "create_endpoint"
    /\ calls' = Append(calls, "create_endpoint")
    /\ \/ /\ endpoint' = [EndpointStatus |-> "Creating",
                          EndpointConfigName |-> endpoint_config_name,
                          FailureReason |-> ""]
          /\ pc' = "wait_for_response"
          /\ UNCHANGED raised
       \/ /\ \E e \in OtherErrors : Abort(ClientError("create_endpoint", e))
          /\ UNCHANGED endpoint
    /\ UNCHANGED <<scriptVars, error, printed, response, pipeline_arn, pipeline_execution_arn, resp,
                   polls, latest_model_package_arn, model_data, status, prediction,
                   pipelines, execVars, packages, models, endpoint_configs,
                   endpointChanges>>

\* wait_for_response(sm_client, endpoint_name): status = 'Creating'
WaitForResponseCall ==
    /\ pc = "wait_for_response"
    /\ status' = "Creating"
    /\ calls' = Append(calls, "wait_for_response")
    /\ pc' = "wait_loop"
    /\ UNCHANGED <<scriptVars, error, raised, printed, response, pipeline_arn, pipeline_execution_arn,
                   resp, polls, latest_model_package_arn, model_data, prediction,
                   pipelines, execVars, packages, hostVars>>

\* mutant: the loop also waits while the endpoint is being updated
StillCreatingOrUpdating(st) == st \in {"Creating", "Updating"}

\* the loop condition
StillCreating(st) == st = "Creating"

\* mutant: the function returns whatever status ended the loop
EndedAnyStatus(st) == st # "Failed"

\* the test after the loop
EndedInService(st) == st = "InService"

\* one iteration of while(status == 'Creating') and, when the loop ends, the
\* if/else after it
WaitForResponseLoop ==
    /\ pc = "wait_loop"
    /\ StillCreating(status)
    /\ LET st == endpoint.EndpointStatus
           message == endpoint.FailureReason
           seen == printed \cup {<<"Creating job is still in status", st>>}
       IN  /\ status' = st
           /\ IF st = "Failed"
                THEN /\ printed' = seen \cup {FailureNotice(message)}
                     /\ Abort(EndpointFailedException(message))
                     /\ UNCHANGED polls
                ELSE IF StillCreating(st)
                THEN /\ polls' = OneMorePoll(polls)
                     /\ printed' = seen
                     /\ UNCHANGED <<pc, raised>>
                ELSE IF EndedInService(st)
                THEN /\ printed' = seen \cup {<<"Creating job ended with status", st>>}
                     /\ pc' = "invoke_endpoint"
                     /\ UNCHANGED <<polls, raised>>
                ELSE /\ printed' = seen
                     /\ Abort(JobStoppedException)
                     /\ UNCHANGED polls
    /\ UNCHANGED <<scriptVars, error, calls, response, pipeline_arn, pipeline_execution_arn, resp,
                   latest_model_package_arn, model_data, prediction, pipelines,
                   execVars, packages, hostVars>>

\* the model package behind the endpoint called name
ServedPackage ==
    LET cfg == CHOOSE c \in 1..Len(endpoint_configs) :
                 endpoint_configs[c].EndpointConfigName = endpoint.EndpointConfigName
        mdl == CHOOSE m \in 1..Len(models) :
                 models[m].ModelName = endpoint_configs[cfg].ModelName
    IN  models[mdl].ModelPackageName

\* runtime.invoke_endpoint(EndpointName=Endpoint_name, ...)
InvokeEndpoint ==
    /\ pc = "invoke_endpoint"
    /\ calls' = Append(calls, "invoke_endpoint")
    /\ \/ /\ endpoint.EndpointStatus \notin {"Deleting", "Failed"}
          /\ prediction' = [EndpointName |-> endpoint_name, ServedBy |-> ServedPackage]
          /\ pc' = "done"
          /\ UNCHANGED raised
       \/ /\ \E e \in OtherErrors : Abort(ClientError("invoke_endpoint", e))
          /\ UNCHANGED prediction
    /\ UNCHANGED <<scriptVars, error, printed, response, pipeline_arn, pipeline_execution_arn, resp,
                   polls, latest_model_package_arn, model_data, status, pipelines,
                   execVars, packages, hostVars>>

\* ------------------------------------------------ the platform: the pipeline

\* step_X.properties.<property>: a value known only once step_X has run
Property(step, property) == [step |-> step, property |-> property]

\* source= or s3_data= given as a plain S3 URI
S3Uri(uri) == [step |-> "s3", property |-> uri]

\* mutant: evaluate.py is given the model under a fixed S3 URI
StepInputsFixedModel(s) ==
    CASE s = step_process  -> <<>>
      [] s = step_train    -> <<Property(step_process, "Outputs['train']"),
                                Property(step_process, "Outputs['validation']")>>
      [] s = step_eval     -> <<S3Uri(PriorArtifact),
                                Property(step_process, "Outputs['test']")>>
      [] s = step_cond     -> <<>>
      [] s = step_register -> <<Property(step_train, "ModelArtifacts.S3ModelArtifacts")>>

\* inputs= of the steps and model_data= of RegisterModel, in the order written
StepInputs(s) ==
    CASE s = step_process  -> <<>>
      [] s = step_train    -> <<Property(step_process, "Outputs['train']"),
                                Property(step_process, "Outputs['validation']")>>
      [] s = step_eval     -> <<Property(step_train, "ModelArtifacts.S3ModelArtifacts"),
                                Property(step_process, "Outputs['test']")>>
      [] s = step_cond     -> <<>>
      [] s = step_register -> <<Property(step_train, "ModelArtifacts.S3ModelArtifacts")>>

\* the platform resolves a property of a step against the job that step ran
\* in the execution; a plain URI names whatever was written there (execution 0)
Resolve(ref, execution) ==
    [step |-> ref.step, property |-> ref.property,
     execution |-> IF ref.step \in PipelineSteps THEN execution ELSE 0]

Resolved(refs, execution) == [i \in 1..Len(refs) |-> Resolve(refs[i], execution)]

\* the S3 object a resolved model reference names
ModelDataUrlOf(artifact) ==
    IF artifact.step = step_train /\ artifact.execution # 0 THEN TrainArtifact
    ELSE PriorArtifact

\* a step may start once the execution runs, the steps it reads from have
\* succeeded and, for a step of a branch, the condition chose its branch
MayStart(s) ==
    /\ execStatus = "Executing"
    /\ stepStatus[s] = "NotStarted"
    /\ \A d \in DependsOn(s) : stepStatus[d] = "Succeeded"
    /\ s \in if_steps => condOutcome = "True"
    /\ s \in else_steps => condOutcome = "False"

StepStarts(s) ==
    /\ MayStart(s)
    /\ stepStatus' = [stepStatus EXCEPT ![s] = "Executing"]
    /\ consumed' = [consumed EXCEPT ![s] = Resolved(StepInputs(s), pipeline_execution_arn)]
    /\ UNCHANGED <<scriptVars, nbVars, pipelines, execStatus, report, condOutcome, packages,
                   hostVars>>

\* preprocess.py or the training job ends
JobSucceeds(s) ==
    /\ s \in {step_process, step_train}
    /\ execStatus = "Executing"
    /\ stepStatus[s] = "Executing"
    /\ stepStatus' = [stepStatus EXCEPT ![s] = "Succeeded"]
    /\ UNCHANGED <<scriptVars, nbVars, pipelines, execStatus, report, condOutcome, consumed, packages,
                   hostVars>>

\* acc = accuracy_score(y_test, predictions.round()): correct / total
accuracy_score(correct, total) == <<correct, total>>

AucValues == {<<1, 2>>, <<1, 1>>}

\* evaluate.py: evaluation_output_path
evaluation_output_path == "/opt/ml/processing/evaluation/evaluation.json"

\* report_dict of evaluate.py
report_dict(acc, auc) ==
    [written |-> TRUE,
     binary_classification_metrics |->
        [accuracy |-> [value |-> acc, standard_deviation |-> "NaN"],
         auc |-> [value |-> auc, standard_deviation |-> "NaN"]]]

\* evaluate.py ends: evaluation.json is written
EvalSucceeds ==
    /\ execStatus = "Executing"
    /\ stepStatus[step_eval] = "Executing"
    /\ \E total \in 1..MaxTestRows, correct \in 0..MaxTestRows, auc \in AucValues :
          /\ correct <= total
          /\ report' = report_dict(accuracy_score(correct, total), auc)
    /\ stepStatus' = [stepStatus EXCEPT ![step_eval] = "Succeeded"]
    /\ UNCHANGED <<scriptVars, nbVars, pipelines, execStatus, condOutcome, consumed, packages, hostVars>>

\* evaluation_report = PropertyFile(...)
evaluation_report ==
    [name |-> "EvaluationReport", output_name |-> "evaluation", path |-> "evaluation.json"]

\* outputs= of step_eval: output_name -> source
step_eval_outputs == [evaluation |-> "/opt/ml/processing/evaluation"]

\* the file of the job a property file names
PropertyFilePath(property_file) ==
    step_eval_outputs[property_file.output_name] \o "/" \o property_file.path

\* json_path="binary_classification_metrics.accuracy.value", split at the dots
json_path == <<"binary_classification_metrics", "accuracy", "value">>

RECURSIVE Walk(_, _)
Walk(obj, path) == IF path = <<>> THEN obj ELSE Walk(obj[Head(path)], Tail(path))

\* mutant: the condition reads the other metric
JsonGetAuc(rep) == Walk(rep, <<"binary_classification_metrics", "auc", "value">>)

\* JsonGet(step_name=step_eval.name, property_file=evaluation_report, json_path=...)
JsonGet(rep) == Walk(rep, json_path)

\* mutant: ConditionGreaterThan
cond_gt(left) == left[1] * ThresholdDen > ThresholdNum * left[2]

\* ConditionGreaterThanOrEqualTo(left, right=0.8) on rationals
cond_lte(left) == left[1] * ThresholdDen >= ThresholdNum * left[2]

ConditionEvaluated ==
    /\ execStatus = "Executing"
    /\ stepStatus[step_cond] = "Executing"
    /\ PropertyFilePath(evaluation_report) = evaluation_output_path
    /\ condOutcome' = IF cond_lte(JsonGet(report)) THEN "True" ELSE "False"
    /\ consumed' = [consumed EXCEPT ![step_cond] =
                        <<[step |-> step_eval, property |-> evaluation_report.name,
                           execution |-> pipeline_execution_arn,
                           value |-> JsonGet(report)]>>]
    /\ stepStatus' = [stepStatus EXCEPT ![step_cond] = "Succeeded"]
    /\ UNCHANGED <<scriptVars, nbVars, pipelines, execStatus, report, packages, hostVars>>

\* the package RegisterModel adds to model_package_group_name
RegisteredPackage(n) ==
    [ModelPackageArn |-> n, CreatedBy |-> "execution", CreationTime |-> n,
     ModelApprovalStatus |-> model_approval_status,
     ModelDataUrl |-> ModelDataUrlOf(consumed[step_register][1])]

RegisterSucceeds ==
    /\ execStatus = "Executing"
    /\ stepStatus[step_register] = "Executing"
    /\ packages' = Append(packages, RegisteredPackage(Len(packages) + 1))
    /\ stepStatus' = [stepStatus EXCEPT ![step_register] = "Succeeded"]
    /\ UNCHANGED <<scriptVars, nbVars, pipelines, execStatus, report, condOutcome, consumed, hostVars>>

\* a step fails and the execution with it
StepFails(s) ==
    /\ execStatus = "Executing"
    /\ stepStatus[s] = "Executing"
    /\ stepStatus' = [stepStatus EXCEPT ![s] = "Failed"]
    /\ execStatus' = "Failed"
    /\ UNCHANGED <<scriptVars, nbVars, pipelines, report, condOutcome, consumed, packages, hostVars>>

\* nothing runs and nothing more may start
ExecutionSucceeds ==
    /\ execStatus = "Executing"
    /\ \A s \in PipelineSteps : stepStatus[s] # "Executing" /\ ~MayStart(s)
    /\ execStatus' = "Succeeded"
    /\ UNCHANGED <<scriptVars, nbVars, pipelines, stepStatus, report, condOutcome, consumed, packages,
                   hostVars>>

\* somebody stops the execution: Executing -> Stopping -> Stopped
StopRequested ==
    /\ execStatus = "Executing"
    /\ execStatus' = "Stopping"
    /\ UNCHANGED <<scriptVars, nbVars, pipelines, stepStatus, report, condOutcome, consumed, packages,
                   hostVars>>

ExecutionStopped ==
    /\ execStatus = "Stopping"
    /\ execStatus' = "Stopped"
    /\ stepStatus' = [s \in PipelineSteps |->
                        IF stepStatus[s] = "Executing" THEN "Stopped" ELSE stepStatus[s]]
    /\ UNCHANGED <<scriptVars, nbVars, pipelines, report, condOutcome, consumed, packages, hostVars>>

\* ------------------------------------------------ the platform: the endpoint
EndpointInService ==
    /\ endpoint.EndpointStatus = "Creating"
    /\ endpoint' = [endpoint EXCEPT !.EndpointStatus = "InService"]
    /\ UNCHANGED <<scriptVars, nbVars, pipelines, execVars, packages, models, endpoint_configs,
                   endpointChanges>>

EndpointFails ==
    /\ endpoint.EndpointStatus = "Creating"
    /\ \E reason \in FailureReasons :
          endpoint' = [endpoint EXCEPT !.EndpointStatus = "Failed",
                                       !.FailureReason = reason]
    /\ UNCHANGED <<scriptVars, nbVars, pipelines, execVars, packages, models, endpoint_configs,
                   endpointChanges>>

\* the status changes of an endpoint that is updated, patched or deleted
NextEndpointStatus(st) ==
    CASE st = "Creating"       -> {"Deleting"}
      [] st = "InService"      -> {"Updating", "SystemUpdating", "Deleting"}
      [] st = "Updating"       -> {"InService", "RollingBack"}
      [] st = "SystemUpdating" -> {"InService"}
      [] st = "RollingBack"    -> {"InService"}
      [] OTHER                 -> {}

EndpointChanges ==
    /\ endpointChanges < MaxEndpointChanges
    /\ \E st \in NextEndpointStatus(endpoint.EndpointStatus) :
          endpoint' = [endpoint EXCEPT !.EndpointStatus = st]
    /\ endpointChanges' = endpointChanges + 1
    /\ UNCHANGED <<scriptVars, nbVars, pipelines, execVars, packages, models, endpoint_configs>>

\* ------------------------------------------------------------ specification
Notebook ==
    \/ PipelineCreate
    \/ AddTags
    \/ PipelineStart
    \/ PollExecution
    \/ ListModelPackages
    \/ UpdateModelPackage
    \/ DescribeModelPackage
    \/ CreateModel
    \/ CreateEndpointConfig
    \/ CreateEndpoint
    \/ WaitForResponseCall
    \/ WaitForResponseLoop
    \/ InvokeEndpoint

Platform ==
    \/ \E s \in PipelineSteps : StepStarts(s)
    \/ \E s \in PipelineSteps : JobSucceeds(s)
    \/ EvalSucceeds
    \/ ConditionEvaluated
    \/ RegisterSucceeds
    \/ \E s \in PipelineSteps : StepFails(s)
    \/ ExecutionSucceeds
    \/ StopRequested
    \/ ExecutionStopped
    \/ EndpointInService
    \/ EndpointFails
    \/ EndpointChanges

Next == Notebook \/ Platform

Spec == Init /\ [][Next]_vars

\* the notebook's kernel keeps running the cell it is in: after time.sleep the
\* loop asks again
KernelRuns == WF_vars(PollExecution) /\ WF_vars(WaitForResponseLoop)

\* the platform's own steps of an execution that is 'Executing'
ExecutionMoves ==
    \/ \E s \in PipelineSteps : StepStarts(s) \/ JobSucceeds(s) \/ StepFails(s)
    \/ EvalSucceeds
    \/ ConditionEvaluated
    \/ RegisterSucceeds
    \/ ExecutionSucceeds

\* the platform's own steps of an endpoint that is 'Creating'
EndpointMoves == EndpointInService \/ EndpointFails

\* the platform does not stall: it eventually reports a status other than
\* 'Executing' for the execution and other than 'Creating' for the endpoint
PlatformReports == WF_vars(ExecutionMoves) /\ WF_vars(EndpointMoves)

\* the account is new or holds the pipeline already; the package group is
\* empty or holds one approved package of an earlier run
InitLive ==
    /\ \E ps \in {<<>>, <<Pipe(pipeline_name)>>},
          group \in {<<>>, <<PriorPackage(1, "Approved")>>} : RunInit(ps, group)
    /\ ScriptIdle

SpecLive == InitLive /\ [][Next]_vars /\ KernelRuns /\ PlatformReports

\* ------------------------------------------------------------ preprocess.py

RECURSIVE Pow2Floor(_)
\* the largest power of two that is at most k (k >= 1)
Pow2Floor(k) == IF k < 2 THEN 1 ELSE 2 * Pow2Floor(k \div 2)

\* int(0.7 * n) in double precision.  The double 0.7 is 0.7 - 0.4 * 2^-53, so
\* the exact product lies 0.4 * n * 2^-53 below 7n/10.  When 7n/10 is an
\* integer k in [2^e, 2^(e+1)) the doubles below k are 2^(e-52) apart: the
\* product rounds to k when 0.4 * n <= 2^e and to the double below k
\* otherwise, which int() truncates to k - 1.  When 7n/10 is no integer its
\* fraction is at least 1/10 and truncation gives the floor.
IntOf07(n) ==
    LET k == (7 * n) \div 10
    IN  IF (7 * n) % 10 = 0 /\ k > 0 /\ 2 * n > 5 * Pow2Floor(k) THEN k - 1 ELSE k

\* int(0.9 * n) in double precision.  The double 0.9 is 0.9 + 0.2 * 2^-53, so
\* the product never falls below 9n/10 and truncation gives the floor.
IntOf09(n) == (9 * n) \div 10

\* the split points [int(0.7 * len(model_data)), int(0.9 * len(model_data))]
SplitPoints(n) == <<IntOf07(n), IntOf09(n)>>

\* mutant: the last part starts one row late
NpSplitDropsRow(ary, at) ==
    <<SubSeq(ary, 1, at[1]), SubSeq(ary, at[1] + 1, at[2]),
      SubSeq(ary, at[2] + 2, Len(ary))>>

\* np.split(ary, [i, j]): ary[:i], ary[i:j], ary[j:]
NpSplit(ary, at) ==
    <<SubSeq(ary, 1, at[1]), SubSeq(ary, at[1] + 1, at[2]),
      SubSeq(ary, at[2] + 1, Len(ary))>>

\* model_data.sample(frac=1, random_state=1729): the rows 1..n in another
\* order.  Every order is tried up to MaxPermRows rows; above, the rotations
\* of 1..n and of n..1.
Shuffles(n) ==
    IF n <= MaxPermRows
      THEN { [i \in 1..n |-> f[i]] : f \in Permutations(1..n) }
      ELSE { [i \in 1..n |-> IF back THEN n - ((i - 1 + r) % n) ELSE ((i - 1 + r) % n) + 1] :
               r \in 0..(n - 1), back \in BOOLEAN }

InitSplit ==
    /\ RunInit(<<>>, <<>>)
    /\ NoUrl
    /\ NoFrames
    /\ script_pc = "read"
    /\ n_rows \in 0..MaxRows
    /\ shuffled = <<>>
    /\ train_csv = <<>>
    /\ validation_csv = <<>>
    /\ test_csv = <<>>

Sample ==
    /\ script_pc = "read"
    /\ shuffled' \in Shuffles(n_rows)
    /\ script_pc' = "sampled"
    /\ UNCHANGED <<runVars, n_rows, train_csv, validation_csv, test_csv, urlVars,
                   frameVars>>

\* np.split(...) and the three to_csv(..., header=False, index=False)
SplitAndWrite ==
    /\ script_pc = "sampled"
    /\ LET parts == NpSplit(shuffled, SplitPoints(n_rows))
       IN  /\ train_csv' = parts[1]
           /\ validation_csv' = parts[2]
           /\ test_csv' = parts[3]
    /\ script_pc' = "written"
    /\ UNCHANGED <<runVars, n_rows, shuffled, urlVars, frameVars>>

NextSplit == Sample \/ SplitAndWrite

SpecSplit == InitSplit /\ [][NextSplit]_vars

\* ------------------------------------- preprocess.py: the --input-data URL
\* A str is the sequence of its characters.

\* list[i] and list[i:] of Python, counted from 0
Item(list, i) == list[i + 1]
Slice(list, i) == SubSeq(list, i + 1, Len(list))

\* str.split(sep) for a separator of one character
RECURSIVE Split(_, _)
Split(str, sep) ==
    IF \A i \in 1..Len(str) : str[i] # sep
      THEN <<str>>
      ELSE LET i == CHOOSE j \in 1..Len(str) :
                       str[j] = sep /\ \A h \in 1..(j - 1) : str[h] # sep
           IN  <<SubSeq(str, 1, i - 1)>> \o Split(SubSeq(str, i + 1, Len(str)), sep)

\* sep.join(list)
RECURSIVE Join(_, _)
Join(list, sep) ==
    IF list = <<>> THEN <<>>
    ELSE IF Len(list) = 1 THEN list[1]
    ELSE list[1] \o <<sep>> \o Join(Tail(list), sep)

\* bucket = input_data.split("/")[2]
BucketOf(url) == Item(Split(url, "/"), 2)

\* mutant: the key is the path segment after the bucket
KeyOfOneSegment(url) == Item(Split(url, "/"), 3)

\* key = "/".join(input_data.split("/")[3:])
KeyOf(url) == Join(Slice(Split(url, "/"), 3), "/")

\* 's3://' + b + '/' + k
S3Url(b, k) == <<"s", "3", ":", "/", "/">> \o b \o <<"/">> \o k

\* the strings of 1..n characters of chars
Strings(chars, n) == UNION { [1..len -> chars] : len \in 1..n }

\* bucket names hold no '/', keys may
Buckets == Strings({"b", "c"}, MaxBucketLen)
Keys == Strings({"k", "/"}, MaxKeyLen)

InitUrl ==
    /\ RunInit(<<>>, <<>>)
    /\ script_pc = "args"
    /\ n_rows = 0
    /\ shuffled = <<>>
    /\ train_csv = <<>>
    /\ validation_csv = <<>>
    /\ test_csv = <<>>
    /\ \E b \in Buckets, k \in Keys : input_data = S3Url(b, k)
    /\ bucket = <<>>
    /\ key = <<>>
    /\ NoFrames

SplitInputData ==
    /\ script_pc = "args"
    /\ bucket' = BucketOf(input_data)
    /\ key' = KeyOf(input_data)
    /\ script_pc' = "download"
    /\ UNCHANGED <<runVars, n_rows, shuffled, train_csv, validation_csv, test_csv,
                   input_data, frameVars>>

NextUrl == SplitInputData

SpecUrl == InitUrl /\ [][NextUrl]_vars

\* ------------------------------ preprocess.py and evaluate.py: the columns
ColumnNumbers(f) == [i \in 1..Len(f.columns) |-> i]

\* the frame of the columns at the positions idx, in that order
Select(f, idx) ==
    Frame([j \in 1..Len(idx) |-> f.columns[idx[j]]],
          [j \in 1..Len(idx) |-> f.dtypes[idx[j]]],
          [r \in 1..Len(f.data) |-> [j \in 1..Len(idx) |-> f.data[r][idx[j]]]])

\* a KeyError is raised unless every name is a column
HasColumns(f, names) ==
    \A name \in names : \E i \in 1..Len(f.columns) : f.columns[i] = name

\* df.drop(names, axis=1)
Drop(f, names) ==
    Select(f, SelectSeq(ColumnNumbers(f), LAMBDA i : f.columns[i] \notin names))

\* df[name]
Column(f, name) ==
    Select(f, SelectSeq(ColumnNumbers(f), LAMBDA i : f.columns[i] = name))

\* pd.concat([a, b], axis=1)
Concat(a, b) ==
    Frame(a.columns \o b.columns, a.dtypes \o b.dtypes,
          [r \in 1..Len(a.data) |-> a.data[r] \o b.data[r]])

\* df[name] = df[name].astype(dtype)
AsType(f, name, dtype) ==
    [f EXCEPT !.dtypes = [i \in 1..Len(f.columns) |->
                            IF f.columns[i] = name THEN dtype ELSE f.dtypes[i]]]

\* the columns of raw-data.csv the scripts name, and one of each other kind
RawColumns ==
    <<"State", "Account Length", "Area Code", "Phone", "Day Mins", "Day Charge",
      "Eve Charge", "Night Charge", "Intl Charge", "Churn?">>

RawDtypes ==
    <<"object", "int64", "int64", "object", "int64", "int64",
      "int64", "int64", "int64", "object">>

RawRow(state, area_code, churn) ==
    <<state, 12, area_code, "382-4657", 26, 45, 16, 11, 2, churn>>

RawRows ==
    { RawRow("KS", 415, "False."), RawRow("OH", 408, "True."), RawRow("OH", 415, "False.") }

RawFiles ==
    UNION { { Frame(RawColumns, RawDtypes, rows) : rows \in [1..n -> RawRows] } :
            n \in 1..MaxFrameRows }

\* the values of the object columns in sorted order
SortedValues ==
    ("State" :> <<"KS", "OH">>) @@ ("Area Code" :> <<408, 415>>) @@
    ("Churn?" :> <<"False.", "True.">>)

\* str(v): the area codes are numbers, the other object columns hold text
Text(column, v) == IF column = "Area Code" THEN ToString(v) ELSE v

\* the values that occur in column i, sorted
Categories(f, i) ==
    SelectSeq(SortedValues[f.columns[i]],
              LAMBDA v : \E r \in 1..Len(f.data) : f.data[r][i] = v)

\* one indicator column <column>_<value> for each value of column i
Dummies(f, i) ==
    LET cats == Categories(f, i)
    IN  Frame([c \in 1..Len(cats) |-> f.columns[i] \o "_" \o Text(f.columns[i], cats[c])],
              [c \in 1..Len(cats) |-> "uint8"],
              [r \in 1..Len(f.data) |->
                 [c \in 1..Len(cats) |-> IF f.data[r][i] = cats[c] THEN 1 ELSE 0]])

RECURSIVE DummiesOf(_, _)
DummiesOf(f, idx) ==
    IF idx = <<>>
      THEN Frame(<<>>, <<>>, [r \in 1..Len(f.data) |-> <<>>])
      ELSE Concat(Dummies(f, Head(idx)), DummiesOf(f, Tail(idx)))

\* pd.get_dummies(df): the other columns as they are, then the indicator
\* columns of the object columns
get_dummies(f) ==
    Concat(Select(f, SelectSeq(ColumnNumbers(f), LAMBDA i : f.dtypes[i] # "object")),
           DummiesOf(f, SelectSeq(ColumnNumbers(f), LAMBDA i : f.dtypes[i] = "object")))

\* mutant: only the indicator of the other class is dropped
TargetKeptTwice(f) ==
    Concat(Column(f, "Churn?_True."), Drop(f, {"Churn?_False."}))

\* pd.concat([model_data["Churn?_True."],
\*            model_data.drop(["Churn?_False.", "Churn?_True."], axis=1)], axis=1)
TargetFirst(f) ==
    Concat(Column(f, "Churn?_True."), Drop(f, {"Churn?_False.", "Churn?_True."}))

\* DataFrame(rows ids of f).to_csv(header=False, index=False): the fields of
\* each row as text
to_csv(f, ids) ==
    [i \in 1..Len(ids) |-> [j \in 1..Len(f.columns) |-> ToString(f.data[ids[i]][j])]]

\* the number a field of a csv file is read back as
ParseNumber(text) == CHOOSE v \in 0..415 : ToString(v) = text

\* pd.read_csv(path, header=None): columns 0, 1, ... of numbers
read_csv(file) == [i \in 1..Len(file) |-> [j \in 1..Len(file[i]) |-> ParseNumber(file[i][j])]]

InitColumns ==
    /\ RunInit(<<>>, <<>>)
    /\ NoUrl
    /\ script_pc = "read_csv"
    /\ n_rows = 0
    /\ shuffled = <<>>
    /\ train_csv = <<>>
    /\ validation_csv = <<>>
    /\ test_csv = <<>>
    /\ raw_csv \in RawFiles
    /\ df = EmptyFrame
    /\ model_frame = EmptyFrame
    /\ y_test = <<>>
    /\ X_test = <<>>

\* df = pd.read_csv(fn)
ReadCsv ==
    /\ script_pc = "read_csv"
    /\ df' = raw_csv
    /\ script_pc' = "drop_phone"
    /\ UNCHANGED <<runVars, n_rows, shuffled, train_csv, validation_csv, test_csv,
                   urlVars, raw_csv, model_frame, y_test, X_test>>

\* df = df.drop(names, axis=1), then the statement at next
DropColumns(at, names, next) ==
    /\ script_pc = at
    /\ IF HasColumns(df, names)
         THEN df' = Drop(df, names) /\ script_pc' = next
         ELSE df' = df /\ script_pc' = "KeyError"
    /\ UNCHANGED <<runVars, n_rows, shuffled, train_csv, validation_csv, test_csv,
                   urlVars, raw_csv, model_frame, y_test, X_test>>

DropPhone == DropColumns("drop_phone", {"Phone"}, "astype")

\* df["Area Code"] = df["Area Code"].astype(object)
AreaCodeAsObject ==
    /\ script_pc = "astype"
    /\ IF HasColumns(df, {"Area Code"})
         THEN df' = AsType(df, "Area Code", "object") /\ script_pc' = "drop_charges"
         ELSE df' = df /\ script_pc' = "KeyError"
    /\ UNCHANGED <<runVars, n_rows, shuffled, train_csv, validation_csv, test_csv,
                   urlVars, raw_csv, model_frame, y_test, X_test>>

DropCharges ==
    DropColumns("drop_charges",
                {"Day Charge", "Eve Charge", "Night Charge", "Intl Charge"}, "get_dummies")

\* model_data = pd.get_dummies(df)
GetDummies ==
    /\ script_pc = "get_dummies"
    /\ model_frame' = get_dummies(df)
    /\ script_pc' = "concat"
    /\ UNCHANGED <<runVars, n_rows, shuffled, train_csv, validation_csv, test_csv,
                   urlVars, raw_csv, df, y_test, X_test>>

\* model_data = pd.concat(...): a KeyError when one of the two classes does
\* not occur in the data; then len(model_data) rows are to be split
ConcatTarget ==
    /\ script_pc = "concat"
    /\ IF HasColumns(model_frame, {"Churn?_True.", "Churn?_False."})
         THEN /\ model_frame' = TargetFirst(model_frame)
              /\ n_rows' = Len(model_frame.data)
              /\ script_pc' = "read"
         ELSE /\ script_pc' = "KeyError"
              /\ UNCHANGED <<model_frame, n_rows>>
    /\ UNCHANGED <<runVars, shuffled, train_csv, validation_csv, test_csv,
                   urlVars, raw_csv, df, y_test, X_test>>

\* evaluate.py: df = pd.read_csv(test_path, header=None);
\* y_test = df.iloc[:, 0].to_numpy(); df.drop(df.columns[0], axis=1, inplace=True);
\* X_test = xgboost.DMatrix(df.values)
ReadTestData ==
    /\ script_pc = "written"
    /\ LET test == read_csv(to_csv(model_frame, test_csv))
       IN  /\ y_test' = [i \in 1..Len(test) |-> Item(test[i], 0)]
           /\ X_test' = [i \in 1..Len(test) |-> Slice(test[i], 1)]
    /\ script_pc' = "evaluated"
    /\ UNCHANGED <<runVars, n_rows, shuffled, train_csv, validation_csv, test_csv,
                   urlVars, raw_csv, df, model_frame>>

NextColumns ==
    \/ ReadCsv
    \/ DropPhone
    \/ AreaCodeAsObject
    \/ DropCharges
    \/ GetDummies
    \/ ConcatTarget
    \/ Sample
    \/ SplitAndWrite
    \/ ReadTestData

SpecColumns == InitColumns /\ [][NextColumns]_vars

\* ------------------------------------------------------------------ claims
InCalls(op) == \E i \in 1..Len(calls) : calls[i] = op

TimesCalled(op) == Cardinality({ i \in 1..Len(calls) : calls[i] = op })

RegisteredByExecution ==
    \E i \in 1..Len(packages) : packages[i].CreatedBy = "execution"

\* the accuracy written to evaluation.json is at least 0.8
AccuracyAtLeast08 ==
    /\ report.written
    /\ LET acc == report.binary_classification_metrics.accuracy.value
       IN  10 * acc[1] >= 8 * acc[2]

\* C1: in every execution a step has started only if the steps before it in
\* preprocess -> train -> evaluate -> condition -> register have completed.
C1_StepsRunInOrder ==
    /\ stepStatus[step_train] # "NotStarted" => stepStatus[step_process] = "Succeeded"
    /\ stepStatus[step_eval] # "NotStarted" =>
          /\ stepStatus[step_train] = "Succeeded"
          /\ stepStatus[step_process] = "Succeeded"
    /\ stepStatus[step_cond] # "NotStarted" => stepStatus[step_eval] = "Succeeded"
    /\ stepStatus[step_register] # "NotStarted" =>
          /\ stepStatus[step_cond] = "Succeeded"
          /\ condOutcome # "None"

C1_Witness ==
    /\ execStatus = "Succeeded"
    /\ \A s \in PipelineSteps : stepStatus[s] = "Succeeded"

\* C2: the register step runs, and a package is registered, only with an
\* accuracy of at least 0.8; once the condition is evaluated the register
\* step is the next step to start exactly when the accuracy is at least 0.8;
\* an execution that succeeded registered a package exactly when the accuracy
\* was at least 0.8; below 0.8 the register step never started and nothing
\* ran in its place.
C2_RegistersIffAccurate ==
    /\ stepStatus[step_register] # "NotStarted" => AccuracyAtLeast08
    /\ RegisteredByExecution => AccuracyAtLeast08
    /\ stepStatus[step_cond] = "Succeeded" =>
          (condOutcome = "True" <=> AccuracyAtLeast08)
    /\ (execStatus = "Executing" /\ stepStatus[step_cond] = "Succeeded"
           /\ stepStatus[step_register] = "NotStarted") =>
          (MayStart(step_register) <=> AccuracyAtLeast08)
    /\ execStatus = "Succeeded" =>
          /\ report.written
          /\ RegisteredByExecution <=> AccuracyAtLeast08
          /\ stepStatus[step_register] =
                IF AccuracyAtLeast08 THEN "Succeeded" ELSE "NotStarted"
          /\ \A s \in PipelineSteps \ {step_register} : stepStatus[s] = "Succeeded"

\* an execution that succeeded with an accuracy of exactly 0.8 and registered
C2_Witness ==
    /\ execStatus = "Succeeded"
    /\ report.written
    /\ report.binary_classification_metrics.accuracy.value = <<4, 5>>
    /\ RegisteredByExecution

\* C3: the package the notebook approves was registered by the execution the
\* notebook started, whatever its final status and whatever the group held.
C3_ApprovesOwnPackage ==
    InCalls("update_model_package") =>
        packages[latest_model_package_arn].CreatedBy = "execution"

\* C4: the last status the pipeline loop polled is Succeeded, Failed or
\* Stopped, and the last status wait_for_response polled is InService or Failed.
C4_PollsUntilTerminal ==
    /\ (pipeline_execution_arn # 0 /\ pc \notin {"start", "poll"}) =>
          resp \in {"Succeeded", "Failed", "Stopped"}
    /\ (InCalls("wait_for_response") /\ pc # "wait_loop") =>
          status \in {"InService", "Failed"}

\* C5 as claimed: the exception raised for a failed endpoint carries the
\* endpoint's FailureReason.
C5_ExceptionCarriesReason ==
    status = "Failed" =>
        /\ raised.type = "Exception"
        /\ Contains(raised.args, endpoint.FailureReason)

\* C5 as amended: for a failed endpoint wait_for_response raises
\* Exception('Creating Endpoint failed'), whose only argument is that fixed
\* text; the FailureReason is printed and logged before the raise.
C5_RaisesFixedMessage ==
    status = "Failed" =>
        /\ pc = "aborted"
        /\ raised.type = "Exception"
        /\ raised.at = "wait_for_response"
        /\ raised.args = <<"Creating Endpoint failed">>
        /\ FailureNotice(endpoint.FailureReason) \in printed

C5_Witness ==
    /\ status = "Failed"
    /\ endpoint.FailureReason = "CapacityError"
    /\ pc = "aborted"

\* C6: after pipeline.create failed with the name conflict no exception has
\* left the create cell, response is the ARN of the pipeline that already
\* had the name, the account still holds exactly one pipeline of the name,
\* and once the tagging has passed that pipeline carries both project tags
\* and the run goes on to pipeline.start() as after a successful create.
C6_NameConflictIsIdempotent ==
    /\ error = DuplicateNameError =>
          /\ raised.at \notin {"pipeline.create", "pipeline.describe"}
          /\ response \in ArnsOf(pipelines, pipeline_name)
          /\ pc = "aborted" => raised.at # "none"
    /\ pc \notin {"create", "aborted"} =>
          /\ Cardinality(ArnsOf(pipelines, pipeline_name)) = 1
          /\ response \in ArnsOf(pipelines, pipeline_name)
    /\ pc \notin {"create", "add_tags", "aborted"} =>
          /\ pipeline_arn = response
          /\ ProjectTags \subseteq pipelines[pipeline_arn].Tags
    /\ InCalls("add_tags") /\ raised.at # "add_tags" => pc # "add_tags"
    /\ pc = "start" => calls = <<"pipeline.create", "add_tags">>

C6_Witness ==
    /\ error = DuplicateNameError
    /\ calls = <<"pipeline.create", "add_tags", "pipeline.start">>
    /\ execStatus = "Executing"
    /\ Len(pipelines) = 2

\* C7: any error of pipeline.create other than the name conflict ends the run
\* at the create cell with no tag added and no execution started; an error of
\* create_model, create_endpoint_config or create_endpoint ends the run before
\* wait_for_response and invoke_endpoint.
C7_OnlyNameConflictIsCaught ==
    /\ (error # NoError /\ error # DuplicateNameError) =>
          /\ pc = "aborted"
          /\ raised.type = "ClientError"
          /\ raised.at = "pipeline.create"
          /\ raised.args = <<error>>
          /\ calls = <<"pipeline.create">>
          /\ \A i \in 1..Len(pipelines) : pipelines[i].Tags = {}
          /\ execStatus = "None"
    /\ raised.at \in {"create_model", "create_endpoint_config", "create_endpoint"} =>
          /\ pc = "aborted"
          /\ calls[Len(calls)] = raised.at
          /\ ~InCalls("wait_for_response")
          /\ ~InCalls("invoke_endpoint")
          /\ prediction = "none"

C7_Witness ==
    /\ error.Code = "ValidationError"
    /\ error # DuplicateNameError
    /\ Len(pipelines) = 2
    /\ pc = "aborted"

StateChangingCalls ==
    {"pipeline.create", "pipeline.start", "update_model_package", "create_model",
     "create_endpoint_config", "create_endpoint", "invoke_endpoint"}

\* C8: every state-changing call is issued at most once in a run.
C8_NoRetry == \A op \in StateChangingCalls : TimesCalled(op) <= 1

\* a complete run in which the endpoint loop polled more than once
C8_Witness ==
    /\ pc = "done"
    /\ polls >= 1
    /\ \A op \in StateChangingCalls : TimesCalled(op) = 1

\* C9: when invoke_endpoint is called the six calls from update_model_package
\* to invoke_endpoint were issued in that order, wait_for_response ended on
\* 'InService', and the model behind the endpoint was created from the
\* approved package.
C9_InvokesInServiceApprovedModel ==
    InCalls("invoke_endpoint") =>
        /\ SubSeq(calls, Len(calls) - 5, Len(calls)) =
              <<"update_model_package", "create_model", "create_endpoint_config",
                "create_endpoint", "wait_for_response", "invoke_endpoint">>
        /\ status = "InService"
        /\ ServedPackage = latest_model_package_arn
        /\ packages[latest_model_package_arn].ModelApprovalStatus = "Approved"

C9_Witness ==
    /\ pc = "done"
    /\ packages[latest_model_package_arn].CreatedBy = "execution"

\* every row 1..n is in exactly one place of the three files
IsPartition ==
    LET all == train_csv \o validation_csv \o test_csv
    IN  /\ Len(all) = n_rows
        /\ \A r \in 1..n_rows : Cardinality({ i \in 1..Len(all) : all[i] = r }) = 1

\* C10 as claimed: the three files partition the rows, with floor(0.7 n),
\* floor(0.9 n) - floor(0.7 n) and n - floor(0.9 n) rows.
C10_SplitSizesAreFloors ==
    script_pc = "written" =>
        /\ IsPartition
        /\ Len(train_csv) = (7 * n_rows) \div 10
        /\ Len(validation_csv) = (9 * n_rows) \div 10 - (7 * n_rows) \div 10
        /\ Len(test_csv) = n_rows - (9 * n_rows) \div 10

\* C10 as amended: the three files partition the rows; train.csv has
\* int(0.7 * n) rows, which is floor(0.7 n) or, for some n that are multiples
\* of 10, one less; validation.csv has floor(0.9 n) rows less those of
\* train.csv; test.csv has n - floor(0.9 n) rows.
C10_SplitIsPartition ==
    script_pc = "written" =>
        /\ IsPartition
        /\ Len(train_csv) = IntOf07(n_rows)
        /\ Len(train_csv) \in {(7 * n_rows) \div 10, (7 * n_rows) \div 10 - 1}
        /\ n_rows % 10 # 0 => Len(train_csv) = (7 * n_rows) \div 10
        /\ Len(validation_csv) = (9 * n_rows) \div 10 - Len(train_csv)
        /\ Len(test_csv) = n_rows - (9 * n_rows) \div 10

\* 90 rows: 62 in train.csv, 19 in validation.csv, 9 in test.csv
C10_Witness ==
    /\ script_pc = "written"
    /\ n_rows = 90
    /\ Len(train_csv) = 62
    /\ Len(validation_csv) = 19
    /\ Len(test_csv) = 9

\* C11: whenever evaluate.py has completed, evaluation.json holds exactly the
\* two metrics accuracy and auc under binary_classification_metrics, each with
\* a value; the property file EvaluationReport names the file evaluate.py
\* writes; and the value the condition step compared is the accuracy that
\* evaluate.py of the same execution wrote.
C11_ConditionReadsWrittenAccuracy ==
    /\ PropertyFilePath(evaluation_report) = evaluation_output_path
    /\ report.written <=> stepStatus[step_eval] = "Succeeded"
    /\ report.written =>
          /\ DOMAIN report = {"written", "binary_classification_metrics"}
          /\ DOMAIN report.binary_classification_metrics = {"accuracy", "auc"}
          /\ \A m \in {"accuracy", "auc"} :
                "value" \in DOMAIN report.binary_classification_metrics[m]
    /\ stepStatus[step_cond] = "Succeeded" =>
          /\ report.written
          /\ consumed[step_cond] =
                <<[step |-> step_eval, property |-> "EvaluationReport",
                   execution |-> pipeline_execution_arn,
                   value |-> report.binary_classification_metrics.accuracy.value]>>

\* the condition has compared an accuracy of 3/5 from a report whose auc is 1
C11_Witness ==
    /\ stepStatus[step_cond] = "Succeeded"
    /\ report.binary_classification_metrics.accuracy.value = <<3, 5>>
    /\ report.binary_classification_metrics.auc.value = <<1, 1>>
    /\ consumed[step_cond][1].value = <<3, 5>>

\* C12: if the platform eventually reports an execution status other than
\* 'Executing' and an endpoint status other than 'Creating', both polling loops
\* are left; and neither loop has a timeout or a poll limit: while the status
\* reported stays 'Executing' (or 'Creating') the loop can always poll again
\* and no step of it leaves the loop.
C12_LoopsEndOnlyWhenPlatformReports ==
    /\ (pc = "poll") ~> (pc # "poll")
    /\ (pc = "wait_loop") ~> (pc # "wait_loop")
    /\ [](pc = "poll" => ENABLED PollExecution)
    /\ [](pc = "wait_loop" => ENABLED WaitForResponseLoop)
    /\ [][/\ pc = "poll" /\ execStatus = "Executing" => pc' = "poll"
          /\ pc = "wait_loop" /\ endpoint.EndpointStatus = "Creating" => pc' = "wait_loop"]_vars

\* both loops have polled up to the model's count and are still polling
C12_Witness ==
    /\ pc = "wait_loop"
    /\ polls = MaxPolls
    /\ status = "Creating"
    /\ endpoint.EndpointStatus = "Creating"
    /\ resp = "Succeeded"

\* wait_for_response has returned to the cell that called it
WaitReturned ==
    \/ pc \in {"invoke_endpoint", "done"}
    \/ pc = "aborted" /\ raised.at = "invoke_endpoint"

\* C13: wait_for_response returns normally exactly when the first status it
\* observes other than 'Creating' is 'InService'; on 'Failed' it raises
\* 'Creating Endpoint failed' and on any other status 'Creating job stopped';
\* while it is in its loop the last status observed is 'Creating'; and once a
\* status other than 'Creating' was observed it does not describe the
\* endpoint again.
C13_ReturnsIffInService ==
    /\ [](/\ pc = "wait_loop" => status = "Creating"
          /\ WaitReturned => status = "InService"
          /\ raised.at = "wait_for_response" =>
                /\ pc = "aborted"
                /\ status \notin {"Creating", "InService"}
                /\ status = "Failed" => raised.args = <<"Creating Endpoint failed">>
                /\ status # "Failed" => raised.args = <<"Creating job stopped">>
          /\ status \notin {"none", "Creating"} =>
                WaitReturned \/ raised.at = "wait_for_response")
    /\ [][/\ status \notin {"none", "Creating"} =>
                status' = status /\ ~WaitForResponseLoop
          /\ status = "Creating" /\ status' # "Creating" =>
                /\ status' = endpoint.EndpointStatus
                /\ pc' # "wait_loop"
                /\ status' = "InService" <=> pc' = "invoke_endpoint"]_vars

\* after one answer of 'Creating' the endpoint was seen being updated
C13_Witness ==
    /\ raised = JobStoppedException
    /\ status = "Updating"
    /\ polls >= 1

\* S3ModelArtifacts of CustomerChurnTrain and the 'test' output of
\* CustomerChurnProcess, as produced in the execution the notebook started
TrainedModel ==
    [step |-> step_train, property |-> "ModelArtifacts.S3ModelArtifacts",
     execution |-> pipeline_execution_arn]

TestSet ==
    [step |-> step_process, property |-> "Outputs['test']",
     execution |-> pipeline_execution_arn]

\* C14: in the execution, CustomerChurnEval is given the model artifact that
\* CustomerChurnTrain of this execution produced and the test set that
\* CustomerChurnProcess of this execution produced, CustomerChurnRegisterModel
\* is given the same model artifact, and the package it registers points at
\* that artifact; both producers completed before their output was read.
C14_SameArtifactThroughout ==
    /\ stepStatus[step_eval] # "NotStarted" =>
          /\ pipeline_execution_arn # 0
          /\ consumed[step_eval] = <<TrainedModel, TestSet>>
          /\ stepStatus[step_train] = "Succeeded"
          /\ stepStatus[step_process] = "Succeeded"
    /\ stepStatus[step_register] # "NotStarted" =>
          /\ consumed[step_register] = <<TrainedModel>>
          /\ consumed[step_register][1] = consumed[step_eval][1]
          /\ stepStatus[step_train] = "Succeeded"
    /\ \A i \in 1..Len(packages) :
          packages[i].CreatedBy = "execution" =>
             /\ stepStatus[step_register] = "Succeeded"
             /\ packages[i].ModelDataUrl = TrainArtifact
             /\ packages[i].ModelDataUrl = ModelDataUrlOf(consumed[step_eval][1])

\* a package was registered next to one of an earlier run
C14_Witness ==
    /\ stepStatus[step_register] = "Succeeded"
    /\ Len(packages) = 2
    /\ packages[1].ModelDataUrl = PriorArtifact
    /\ packages[2].ModelDataUrl = TrainArtifact
    /\ consumed[step_eval][1].execution = 1

\* C16: with the default ModelApprovalStatus='Approved' every package the
\* pipeline registers is 'Approved' from the start, the notebook's
\* update_model_package on such a package changes nothing in the group, and
\* updating any package once or twice gives the same group.
C16_UpdateKeepsApproved ==
    /\ [](\A i \in 1..Len(packages) :
            /\ packages[i].CreatedBy = "execution" =>
                  packages[i].ModelApprovalStatus = "Approved"
            /\ LET once == update_model_package(packages, i, "Approved")
               IN  /\ once[i].ModelApprovalStatus = "Approved"
                   /\ update_model_package(once, i, "Approved") = once)
    /\ [][(/\ pc = "update_model_package"
           /\ packages[latest_model_package_arn].CreatedBy = "execution"
           /\ UpdateModelPackage) => packages' = packages]_vars

\* the notebook has updated the package this execution registered, next to
\* an earlier one that still waits for approval
C16_Witness ==
    /\ pc = "describe_model_package"
    /\ Len(packages) = 2
    /\ latest_model_package_arn = 2
    /\ packages[2].CreatedBy = "execution"
    /\ packages[2].ModelApprovalStatus = "Approved"
    /\ packages[1].ModelApprovalStatus = "PendingManualApproval"

\* C17: for every URL 's3://<bucket>/<key>' with a non-empty bucket name
\* without '/' and a non-empty key, the bucket and the key preprocess.py
\* derives are <bucket> and <key>, and 's3://' + bucket + '/' + key is the URL.
C17_UrlSplitIsLossless ==
    script_pc = "download" =>
        /\ \A b \in Buckets, k \in Keys :
              input_data = S3Url(b, k) => bucket = b /\ key = k
        /\ S3Url(bucket, key) = input_data

\* s3://bc/k//: the key has an empty segment in the middle and at the end
C17_Witness ==
    /\ script_pc = "download"
    /\ input_data = <<"s", "3", ":", "/", "/", "b", "c", "/", "k", "/", "/">>
    /\ bucket = <<"b", "c">>
    /\ key = <<"k", "/", "/">>

\* the class of the raw row at position r of model_data
RawChurn(r) == raw_csv.data[r][Len(RawColumns)]

\* C15: in every row of train.csv, validation.csv and test.csv the first field
\* is the binary target 'Churn?_True.' of the raw row it came from and no other
\* field is a column 'Churn?_True.', 'Churn?_False.', 'Phone', 'Day Charge',
\* 'Eve Charge', 'Night Charge' or 'Intl Charge'; evaluate.py takes field 0 of
\* each row of test.csv as the label and the remaining fields, in order, as
\* the features.
C15_LabelFirstAndOnlyFirst ==
    /\ script_pc \in {"written", "evaluated"} =>
          /\ model_frame.columns[1] = "Churn?_True."
          /\ \A j \in 2..Len(model_frame.columns) :
                model_frame.columns[j] \notin
                   {"Churn?_True.", "Churn?_False.", "Phone", "Day Charge",
                    "Eve Charge", "Night Charge", "Intl Charge"}
          /\ Len(train_csv) + Len(validation_csv) + Len(test_csv) = Len(raw_csv.data)
          /\ \A file \in {train_csv, validation_csv, test_csv} :
                \A i \in 1..Len(file) :
                   LET row == to_csv(model_frame, file)[i]
                   IN  /\ Len(row) = Len(model_frame.columns)
                       /\ row[1] \in {"0", "1"}
                       /\ row[1] = "1" <=> RawChurn(file[i]) = "True."
    /\ script_pc = "evaluated" =>
          /\ Len(y_test) = Len(test_csv)
          /\ Len(X_test) = Len(test_csv)
          /\ \A i \in 1..Len(test_csv) :
                /\ y_test[i] = IF RawChurn(test_csv[i]) = "True." THEN 1 ELSE 0
                /\ Len(X_test[i]) = Len(model_frame.columns) - 1
                /\ \A j \in 1..Len(X_test[i]) :
                      X_test[i][j] = model_frame.data[test_csv[i]][j + 1]

\* five rows of both classes: three in train.csv, one in validation.csv and
\* a churner in test.csv, read by evaluate.py
C15_Witness ==
    /\ script_pc = "evaluated"
    /\ Len(train_csv) = 3
    /\ Len(validation_csv) = 1
    /\ y_test = <<1>>
    /\ Len(X_test[1]) = 6
    /\ model_frame.columns =
          <<"Churn?_True.", "Account Length", "Day Mins", "State_KS", "State_OH",
            "Area Code_408", "Area Code_415">>

====
